---- MODULE Spec2Model ----
(***************************************************************************)
(* Model of the integration layer of webrtc-audio-processing:              *)
(*   - examples/config_karaoke.rs : the duplex demo loop (specification    *)
(*     Spec): configuration loading, start-up, the audio callback, the     *)
(*     interrupt handler and the control loop;                             *)
(*   - webrtc-audio-processing-sys/build.rs : the build script             *)
(*     (specification BuildSpec): dependency resolution in both build      *)
(*     strategies, shim compilation and binding generation.                *)
(* The Processor facade belongs to the crate's library; its operations     *)
(* are modelled from sections 4.3 and 8 of the specification and are       *)
(* marked as such where they are defined.                                  *)
(***************************************************************************)
EXTENDS Integers, Sequences, FiniteSets, TLC

(***************************************************************************)
(* Bounds of the model.                                                    *)
(***************************************************************************)
\* FRAMES_PER_BUFFER is 480 in the source (config_karaoke.rs:20); the model
\* keeps the name and scales the frame length down.
FRAMES_PER_BUFFER == 2

\* Samples are f32 in the source; the model draws them from 0..MaxSample.
MaxSample == 1

Samples == 0..MaxSample

\* Option<T> as a set with at most one element.
None == {}

Some(x) == {x}

IsSome(o) == o # {}

Unwrap(o) == CHOOSE x \in o : TRUE

\* Option::or
OrElse(a, b) == IF IsSome(a) THEN a ELSE b

\* vec![0f32; n]
Zeros(n) == [i \in 1..n |-> 0]

(***************************************************************************)
(* config_karaoke.rs : configuration                                       *)
(***************************************************************************)
\* Channel counts a configuration file may give.
Channels == {1, 2}

default_channels == 1

\* impl Default for AppConfig
AppConfig_default ==
    [ num_capture_channels |-> default_channels,
      num_render_channels  |-> default_channels,
      config               |-> "default",
      aec3                 |-> "default" ]

\* The value of `config` before it is loaded.
NoConfig ==
    [ num_capture_channels |-> 0,
      num_render_channels  |-> 0,
      config               |-> "unset",
      aec3                 |-> "unset" ]

\* The text of a configuration file: malformed, or a JSON5 object in which
\* every field may be left out.  The files drawn either give channel counts
\* and leave the settings out, or give settings and leave the counts out.
FileContents ==
    [ wellformed           : {TRUE},
      num_capture_channels : {None} \cup {Some(c) : c \in Channels},
      num_render_channels  : {None} \cup {Some(c) : c \in Channels},
      config               : {None},
      aec3                 : {None} ]
    \cup
    [ wellformed           : {TRUE},
      num_capture_channels : {None},
      num_render_channels  : {None},
      config               : {None, Some("custom")},
      aec3                 : {None, Some("custom")} ]

EmptyContent ==
    [ wellformed           |-> FALSE,
      num_capture_channels |-> None,
      num_render_channels  |-> None,
      config               |-> None,
      aec3                 |-> None ]

\* What can be at the path given on the command line.
ConfigFiles ==
    { [exists |-> FALSE, readable |-> FALSE, content |-> EmptyContent],
      [exists |-> TRUE,  readable |-> FALSE, content |-> EmptyContent],
      [exists |-> TRUE,  readable |-> TRUE,  content |-> EmptyContent] }
    \cup [ exists : {TRUE}, readable : {TRUE}, content : FileContents ]

\* json5::from_str into AppConfig: #[serde(default)] fills every missing
\* field from its default; a malformed text is an error.
json5_from_str(content) ==
    IF ~content.wellformed
    THEN [ok |-> FALSE, value |-> NoConfig]
    ELSE [ok |-> TRUE,
          value |->
            [ num_capture_channels |->
                IF IsSome(content.num_capture_channels)
                THEN Unwrap(content.num_capture_channels) ELSE default_channels,
              num_render_channels |->
                IF IsSome(content.num_render_channels)
                THEN Unwrap(content.num_render_channels) ELSE default_channels,
              config |-> IF IsSome(content.config)
                         THEN Unwrap(content.config) ELSE "default",
              aec3   |-> IF IsSome(content.aec3)
                         THEN Unwrap(content.aec3) ELSE "default" ]]

\* A plausible slip: a file that cannot be read or parsed falls back to the
\* defaults instead of failing.
from_file_with_defaults_Lenient(f) ==
    IF f.exists /\ f.readable /\ f.content.wellformed
    THEN json5_from_str(f.content)
    ELSE [ok |-> TRUE, value |-> AppConfig_default]

\* AppConfig::from_file_with_defaults
from_file_with_defaults(f) ==
    IF f.exists
    THEN IF ~f.readable
         THEN [ok |-> FALSE, value |-> NoConfig]
         ELSE json5_from_str(f.content)
    ELSE [ok |-> TRUE, value |-> AppConfig_default]

(***************************************************************************)
(* The Processor facade, modelled from the specification (4.3, 8).         *)
(***************************************************************************)
\* Samples per channel of one 10 ms frame at the demo's sample rate; equal
\* to FRAMES_PER_BUFFER (480 at 48 kHz).
NUM_SAMPLES_PER_FRAME == FRAMES_PER_BUFFER

ValidChannels == {1, 2}

NoProcessor ==
    [ constructed |-> FALSE, num_capture_channels |-> 0,
      num_render_channels |-> 0, aec3 |-> "unset", config |-> "unset" ]

\* construct(InitializationConfig, optional AlgorithmConfig)
Processor_with_aec3_config(init, aec3) ==
    IF init.num_capture_channels \in ValidChannels
       /\ init.num_render_channels \in ValidChannels
    THEN [ok |-> TRUE,
          value |-> [ constructed |-> TRUE,
                      num_capture_channels |-> init.num_capture_channels,
                      num_render_channels  |-> init.num_render_channels,
                      aec3 |-> aec3, config |-> "default" ]]
    ELSE [ok |-> FALSE, value |-> NoProcessor]

\* set_config(RuntimeConfig)
Processor_set_config(p, cfg) == [p EXCEPT !.config = cfg]

\* The native engine is opaque: it rewrites the frame in place.  The model
\* lets it add one of EngineOffsets to every sample.
EngineOffsets == {0, 1}

EngineApply(frame, g) ==
    [i \in 1..Len(frame) |-> (frame[i] + g) % (MaxSample + 1)]

\* process_capture_frame: fails on a length other than frame size x capture
\* channels, else processes in place.
process_capture_frame(p, frame, g) ==
    IF Len(frame) # NUM_SAMPLES_PER_FRAME * p.num_capture_channels
    THEN [ok |-> FALSE, frame |-> frame]
    ELSE [ok |-> TRUE, frame |-> EngineApply(frame, g)]

\* process_render_frame: the same for the render channel count.
process_render_frame(p, frame, g) ==
    IF Len(frame) # NUM_SAMPLES_PER_FRAME * p.num_render_channels
    THEN [ok |-> FALSE, frame |-> frame]
    ELSE [ok |-> TRUE, frame |-> EngineApply(frame, g)]

(***************************************************************************)
(* config_karaoke.rs : state of the demo                                   *)
(***************************************************************************)
VARIABLES
    file,            \* the configuration file at args.config_file
    mainpc,          \* position of the main thread
    exitStatus,      \* "none" | "ok" | "err": what main returns
    config,          \* AppConfig
    processor,       \* the Processor
    stream,          \* "none" | "open" | "active" | "stopped"
    processed,       \* pre-allocated capture buffer
    output_buffer,   \* pre-allocated render buffer
    output_channels, \* config.num_render_channels captured by the closure
    in_buffer,       \* callback argument
    out_buffer,      \* callback argument (the device's output frame)
    cbpc,            \* 0: no callback running; k: step k of the callback is next
    cblog,           \* the steps the current (or last) callback has run
    panicked,        \* "no", or why the callback panicked
    aborted,         \* TRUE once a panic in the callback has ended the process
    running,         \* the AtomicBool shared with the interrupt handler
    handlerInstalled,
    pollsSinceStore  \* polls of `running` made after the handler stored false

\* State of a run of the build script (build.rs).
VARIABLES
    benv,            \* what the build script finds: feature, environment, probe
    bpc,             \* position of the build script's main
    invoked,         \* the external tools main has called, with their outcomes
    include_dirs,    \* first component of get_build_paths' result
    lib_dirs,        \* second component
    bresult          \* "running" | "ok" | the error that ended the build

demoVars == << file, mainpc, exitStatus, config, processor, stream, processed,
               output_buffer, output_channels, in_buffer, out_buffer, cbpc,
               cblog, panicked, aborted, running, handlerInstalled,
               pollsSinceStore >>

buildVars == << benv, bpc, invoked, include_dirs, lib_dirs, bresult >>

vars == << demoVars, buildVars >>

mainVars == << mainpc, exitStatus, config, processor, stream, processed,
               output_buffer, output_channels, running, handlerInstalled,
               pollsSinceStore >>

cbVars == << in_buffer, out_buffer, cbpc, cblog, panicked, aborted >>

DemoInit ==
    /\ file \in ConfigFiles
    /\ mainpc = "load_config"
    /\ exitStatus = "none"
    /\ config = NoConfig
    /\ processor = NoProcessor
    /\ stream = "none"
    /\ processed = << >>
    /\ output_buffer = << >>
    /\ output_channels = 0
    /\ in_buffer = << >>
    /\ out_buffer = << >>
    /\ cbpc = 0
    /\ cblog = << >>
    /\ panicked = "no"
    /\ aborted = FALSE
    /\ running = TRUE
    /\ handlerInstalled = FALSE
    /\ pollsSinceStore = 0

\* The process is alive: main has not returned and no panic has aborted it.
Alive == ~aborted /\ mainpc # "done"

\* `?` on an Err: main returns the error; its locals are dropped in MainReturn.
Fail == /\ mainpc' = "return"
        /\ exitStatus' = "err"

(***************************************************************************)
(* config_karaoke.rs : main thread                                         *)
(***************************************************************************)
\* main, line 101: let config = AppConfig::from_file_with_defaults(..)?
LoadConfig ==
    /\ Alive /\ mainpc = "load_config"
    /\ LET r == from_file_with_defaults(file) IN
         IF r.ok
         THEN /\ config' = r.value
              /\ mainpc' = "create_processor"
              /\ UNCHANGED exitStatus
         ELSE /\ Fail
              /\ UNCHANGED config
    /\ UNCHANGED << file, processor, stream, processed, output_buffer,
                    output_channels, running, handlerInstalled,
                    pollsSinceStore >>
    /\ UNCHANGED cbVars
    /\ UNCHANGED buildVars

\* create_processor (lines 68-80), called at line 103 with `?`.
CreateProcessor ==
    /\ Alive /\ mainpc = "create_processor"
    /\ LET r == Processor_with_aec3_config(
                    [ num_capture_channels |-> config.num_capture_channels,
                      num_render_channels  |-> config.num_render_channels ],
                    config.aec3) IN
         IF r.ok
         THEN /\ processor' = Processor_set_config(r.value, config.config)
              /\ mainpc' = "pa_new"
              /\ UNCHANGED exitStatus
         ELSE /\ Fail
              /\ UNCHANGED processor
    /\ UNCHANGED << file, config, stream, processed, output_buffer,
                    output_channels, running, handlerInstalled,
                    pollsSinceStore >>
    /\ UNCHANGED cbVars
    /\ UNCHANGED buildVars

\* Lines 105-112: PortAudio::new()? and default_duplex_stream_settings(..)?;
\* either may fail in the audio host.
PaSetup ==
    /\ Alive /\ mainpc = "pa_new"
    /\ \E ok \in BOOLEAN :
         IF ok
         THEN mainpc' = "alloc" /\ UNCHANGED exitStatus
         ELSE Fail
    /\ UNCHANGED << file, config, processor, stream, processed, output_buffer,
                    output_channels, running, handlerInstalled,
                    pollsSinceStore >>
    /\ UNCHANGED cbVars
    /\ UNCHANGED buildVars

\* Lines 114-119: the working buffers are allocated once, before the stream.
AllocBuffers ==
    /\ Alive /\ mainpc = "alloc"
    /\ processed' = Zeros(FRAMES_PER_BUFFER * config.num_capture_channels)
    /\ output_buffer' = Zeros(FRAMES_PER_BUFFER * config.num_render_channels)
    /\ output_channels' = config.num_render_channels
    /\ mainpc' = "open_stream"
    /\ UNCHANGED << file, exitStatus, config, processor, stream, running,
                    handlerInstalled, pollsSinceStore >>
    /\ UNCHANGED cbVars
    /\ UNCHANGED buildVars

\* Lines 121-145: pa.open_non_blocking_stream(settings, callback)?
OpenStream ==
    /\ Alive /\ mainpc = "open_stream"
    /\ \E ok \in BOOLEAN :
         IF ok
         THEN /\ stream' = "open"
              /\ mainpc' = "start"
              /\ UNCHANGED exitStatus
         ELSE /\ Fail
              /\ UNCHANGED stream
    /\ UNCHANGED << file, config, processor, processed, output_buffer,
                    output_channels, running, handlerInstalled,
                    pollsSinceStore >>
    /\ UNCHANGED cbVars
    /\ UNCHANGED buildVars

\* Line 147: stream.start()?
StreamStart ==
    /\ Alive /\ mainpc = "start"
    /\ \E ok \in BOOLEAN :
         IF ok
         THEN /\ stream' = "active"
              /\ mainpc' = "set_handler"
              /\ UNCHANGED exitStatus
         ELSE /\ Fail
              /\ UNCHANGED stream
    /\ UNCHANGED << file, config, processor, processed, output_buffer,
                    output_channels, running, handlerInstalled,
                    pollsSinceStore >>
    /\ UNCHANGED cbVars
    /\ UNCHANGED buildVars

\* wait_ctrlc, lines 83-90: the flag is created true and the handler is
\* registered; registration may fail.
SetHandler ==
    /\ Alive /\ mainpc = "set_handler"
    /\ \E ok \in BOOLEAN :
         IF ok
         THEN /\ handlerInstalled' = TRUE
              /\ mainpc' = "wait_loop"
              /\ UNCHANGED exitStatus
         ELSE /\ Fail
              /\ UNCHANGED handlerInstalled
    /\ UNCHANGED << file, config, processor, stream, processed, output_buffer,
                    output_channels, running, pollsSinceStore >>
    /\ UNCHANGED cbVars
    /\ UNCHANGED buildVars

\* wait_ctrlc, lines 92-96: one poll of the flag; while it is true the thread
\* sleeps 10 ms and polls again, once it is false the function returns Ok.
PollRunning ==
    /\ Alive /\ mainpc = "wait_loop"
    /\ IF running
       THEN UNCHANGED << mainpc, exitStatus, pollsSinceStore >>
       ELSE /\ mainpc' = "return"
            /\ exitStatus' = "ok"
            /\ pollsSinceStore' = IF pollsSinceStore < 2
                                  THEN pollsSinceStore + 1 ELSE 2
    /\ UNCHANGED << file, config, processor, stream, processed, output_buffer,
                    output_channels, running, handlerInstalled >>
    /\ UNCHANGED cbVars
    /\ UNCHANGED buildVars

\* The closure given to ctrlc::set_handler, lines 87-89.
InterruptHandler ==
    /\ Alive /\ handlerInstalled
    /\ running' = FALSE
    /\ UNCHANGED << file, mainpc, exitStatus, config, processor, stream,
                    processed, output_buffer, output_channels,
                    handlerInstalled, pollsSinceStore >>
    /\ UNCHANGED cbVars
    /\ UNCHANGED buildVars

\* main returns (line 151, or an earlier `?`): its locals are dropped, and
\* dropping an open stream closes it, which ends the callbacks.  Closing
\* waits for a callback in progress.
MainReturn ==
    /\ Alive /\ mainpc = "return"
    /\ cbpc = 0 \/ panicked # "no"
    /\ stream' = IF stream \in {"open", "active"} THEN "stopped" ELSE stream
    /\ mainpc' = "done"
    /\ UNCHANGED << file, exitStatus, config, processor, processed,
                    output_buffer, output_channels, running, handlerInstalled,
                    pollsSinceStore >>
    /\ UNCHANGED cbVars
    /\ UNCHANGED buildVars

(***************************************************************************)
(* config_karaoke.rs : the stream callback (lines 123-144)                 *)
(***************************************************************************)
\* A plausible slip: render processing placed before capture processing.
CallbackSteps_RenderFirst == << "copy_in", "render", "fill_out", "capture" >>

\* The statements of the callback in program order: line 126, line 127,
\* lines 131-139, line 141.
CallbackSteps == << "copy_in", "capture", "fill_out", "render" >>

\* <[f32]>::copy_from_slice: panics unless the two slices have one length.
copy_from_slice(dst, src) ==
    IF Len(dst) # Len(src)
    THEN [ok |-> FALSE, buf |-> dst]
    ELSE [ok |-> TRUE, buf |-> src]

\* A plausible slip: only the left sample of each output pair is written.
duplicate_samples_LeftOnly(out, mono, frames) ==
    IF 2 * frames > Len(out) \/ frames > Len(mono)
    THEN [ok |-> FALSE, buf |-> out]
    ELSE [ok |-> TRUE,
          buf |-> [j \in 1..Len(out) |->
                     IF j <= 2 * frames /\ j % 2 = 1
                     THEN mono[(j + 1) \div 2] ELSE out[j]]]

\* Lines 134-137: for i in 0..frames, out[2i] = out[2i+1] = mono[i]
\* (positions counted from 0 in the source, from 1 here).  An index past the
\* end of either buffer panics.
duplicate_samples(out, mono, frames) ==
    IF 2 * frames > Len(out) \/ frames > Len(mono)
    THEN [ok |-> FALSE, buf |-> out]
    ELSE [ok |-> TRUE,
          buf |-> [j \in 1..Len(out) |->
                     IF j <= 2 * frames
                     THEN mono[(j + 1) \div 2] ELSE out[j]]]

\* The callback may run while the stream is active and the process lives.
CallbackMayRun == ~aborted /\ panicked = "no" /\ stream = "active"

\* Step `name` of the callback is the next one to run.
AtStep(name) ==
    /\ CallbackMayRun
    /\ cbpc \in 1..Len(CallbackSteps)
    /\ CallbackSteps[cbpc] = name

\* The step ran to its end: on to the next one, or back to the host after
\* the last (portaudio::Continue, line 143).
StepDone(name) ==
    /\ cblog' = Append(cblog, name)
    /\ cbpc' = IF cbpc = Len(CallbackSteps) THEN 0 ELSE cbpc + 1
    /\ UNCHANGED << panicked, aborted >>

\* A panic inside the callback unwinds into the host library's native
\* thread: the process is aborted, or (undefined behaviour in older
\* toolchains) only the callback thread is lost.
Panic(cause) ==
    /\ panicked' = cause
    /\ aborted' \in BOOLEAN
    /\ UNCHANGED << cbpc, cblog >>

\* The host calls the closure with one input frame and the device's output
\* frame, `frames` samples per channel each (line 123; the assertion of line
\* 124 holds because the stream was opened with FRAMES_PER_BUFFER).  The
\* samples of the input frame are drawn where the callback reads them.
CallbackEnter ==
    /\ CallbackMayRun /\ cbpc = 0
    /\ in_buffer' = << >>
    /\ out_buffer' = Zeros(FRAMES_PER_BUFFER * config.num_render_channels)
    /\ cbpc' = 1
    /\ cblog' = << >>
    /\ UNCHANGED << panicked, aborted >>
    /\ UNCHANGED << file >>
    /\ UNCHANGED mainVars
    /\ UNCHANGED buildVars

\* Line 126: processed.copy_from_slice(&in_buffer), for any input frame of
\* frames x capture channels samples.
CbCopyIn ==
    /\ AtStep("copy_in")
    /\ \E frame \in [1..(FRAMES_PER_BUFFER * config.num_capture_channels)
                        -> Samples] :
         LET r == copy_from_slice(processed, frame) IN
           /\ in_buffer' = frame
           /\ IF r.ok
              THEN processed' = r.buf /\ StepDone("copy_in")
              ELSE Panic("length_mismatch") /\ UNCHANGED processed
    /\ UNCHANGED << file, mainpc, exitStatus, config, processor, stream,
                    output_buffer, output_channels, out_buffer,
                    running, handlerInstalled, pollsSinceStore >>
    /\ UNCHANGED buildVars

\* Line 127: processor.process_capture_frame(&mut processed).unwrap()
CbCapture ==
    /\ AtStep("capture")
    /\ \E g \in EngineOffsets :
         LET r == process_capture_frame(processor, processed, g) IN
           IF r.ok
           THEN processed' = r.frame /\ StepDone("capture")
           ELSE Panic("length_mismatch") /\ UNCHANGED processed
    /\ UNCHANGED << file, mainpc, exitStatus, config, processor, stream,
                    output_buffer, output_channels, in_buffer, out_buffer,
                    running, handlerInstalled, pollsSinceStore >>
    /\ UNCHANGED buildVars

\* Lines 131-139: the device's output frame is filled from `processed`,
\* directly when there is one output channel, through output_buffer with
\* every sample written twice otherwise.
CbFillOut ==
    /\ AtStep("fill_out")
    /\ IF output_channels = 1
       THEN LET r == copy_from_slice(out_buffer, processed) IN
              /\ UNCHANGED output_buffer
              /\ IF r.ok
                 THEN out_buffer' = r.buf /\ StepDone("fill_out")
                 ELSE Panic("length_mismatch") /\ UNCHANGED out_buffer
       ELSE LET d == duplicate_samples(output_buffer, processed,
                                       FRAMES_PER_BUFFER)
                r == copy_from_slice(out_buffer, d.buf) IN
              IF ~d.ok
              THEN /\ Panic("index_out_of_bounds")
                   /\ UNCHANGED << output_buffer, out_buffer >>
              ELSE /\ output_buffer' = d.buf
                   /\ IF r.ok
                      THEN out_buffer' = r.buf /\ StepDone("fill_out")
                      ELSE Panic("length_mismatch") /\ UNCHANGED out_buffer
    /\ UNCHANGED << file, mainpc, exitStatus, config, processor, stream,
                    processed, output_channels, in_buffer, running,
                    handlerInstalled, pollsSinceStore >>
    /\ UNCHANGED buildVars

\* Line 141: processor.process_render_frame(&mut out_buffer).unwrap()
CbRender ==
    /\ AtStep("render")
    /\ \E g \in EngineOffsets :
         LET r == process_render_frame(processor, out_buffer, g) IN
           IF r.ok
           THEN out_buffer' = r.frame /\ StepDone("render")
           ELSE Panic("length_mismatch") /\ UNCHANGED out_buffer
    /\ UNCHANGED << file, mainpc, exitStatus, config, processor, stream,
                    processed, output_buffer, output_channels, in_buffer,
                    running, handlerInstalled, pollsSinceStore >>
    /\ UNCHANGED buildVars

(***************************************************************************)
(* build.rs : dependency resolution, system-probe strategy (lines 9-51)    *)
(***************************************************************************)
\* Vec::pop: the last element, if any.
VecPop(v) == IF v = << >> THEN None ELSE Some(v[Len(v)])

\* What pkg-config can answer for webrtc-audio-processing-2 >= 2.0: no such
\* package, or a library with its include and link paths.
ProbeResults ==
    { [ok |-> FALSE, include_paths |-> << >>, link_paths |-> << >>] }
    \cup [ ok            : {TRUE},
           include_paths : { << >>, << "pc_inc_a" >>, << "pc_inc_a", "pc_inc_b" >> },
           link_paths    : { << >>, << "pc_lib_a" >>, << "pc_lib_a", "pc_lib_b" >> } ]

\* find_pkgconfig_paths: a failed probe is an error (`?`), a successful one
\* gives the last include path and the last link path, each possibly absent.
find_pkgconfig_paths(probe) ==
    IF ~probe.ok
    THEN [ok |-> FALSE, include |-> None, lib |-> None]
    ELSE [ok |-> TRUE,
          include |-> VecPop(probe.include_paths),
          lib     |-> VecPop(probe.link_paths)]

\* A plausible slip: the probe's path is preferred to the override variable.
get_build_paths_ProbeFirst(include_var, lib_var, probe) ==
    LET pk == find_pkgconfig_paths(probe) IN
      IF ~pk.ok
      THEN [ok |-> FALSE, err |-> "ProbeError",
            include_dirs |-> << >>, lib_dirs |-> << >>]
      ELSE LET include_path == OrElse(pk.include, include_var)
               lib_path     == OrElse(pk.lib, lib_var) IN
             IF IsSome(include_path) /\ IsSome(lib_path)
             THEN [ok |-> TRUE, err |-> "none",
                   include_dirs |-> << Unwrap(include_path) >>,
                   lib_dirs     |-> << Unwrap(lib_path) >>]
             ELSE [ok |-> FALSE, err |-> "DependencyNotFound",
                   include_dirs |-> << >>, lib_dirs |-> << >>]

\* webrtc::get_build_paths without the "bundled" feature.  The probe comes
\* first and its failure is returned at once (line 17); only then is each
\* path taken from its environment variable, or else from the probe.
get_build_paths(include_var, lib_var, probe) ==
    LET pk == find_pkgconfig_paths(probe) IN
      IF ~pk.ok
      THEN [ok |-> FALSE, err |-> "ProbeError",
            include_dirs |-> << >>, lib_dirs |-> << >>]
      ELSE LET include_path == OrElse(include_var, pk.include)
               lib_path     == OrElse(lib_var, pk.lib) IN
             IF IsSome(include_path) /\ IsSome(lib_path)
             THEN [ok |-> TRUE, err |-> "none",
                   include_dirs |-> << Unwrap(include_path) >>,
                   lib_dirs     |-> << Unwrap(lib_path) >>]
             ELSE [ok |-> FALSE, err |-> "DependencyNotFound",
                   include_dirs |-> << >>, lib_dirs |-> << >>]

(***************************************************************************)
(* build.rs : state of a run of the build script                           *)
(***************************************************************************)
\* What a run finds: the "bundled" feature, the two override variables, the
\* answer of pkg-config, and whether ./webrtc-audio-processing is empty.
BuildEnvs ==
    [ bundled      : BOOLEAN,
      include_var  : {None, Some("env_inc")},
      lib_var      : {None, Some("env_lib")},
      probe        : ProbeResults,
      source_empty : BOOLEAN ]

\* How the call of an external tool ends: it ran and exited with status
\* zero, it ran and exited with another status, or it could not be started.
Outcomes == {"ok", "failed", "missing"}

Call(tool, outcome) == [tool |-> tool, outcome |-> outcome]

BuildInit ==
    /\ benv \in BuildEnvs
    /\ bpc = "get_build_paths"
    /\ invoked = << >>
    /\ include_dirs = << >>
    /\ lib_dirs = << >>
    /\ bresult = "running"

\* The build ends with an error (an Err returned by main, or a panic).
BuildAbort(err) ==
    /\ bpc' = "done"
    /\ bresult' = err

\* main, line 149, system-probe strategy: webrtc::get_build_paths()?
SystemGetBuildPaths ==
    /\ bpc = "get_build_paths" /\ ~benv.bundled
    /\ LET r == get_build_paths(benv.include_var, benv.lib_var, benv.probe) IN
         /\ invoked' = Append(invoked,
                Call("pkg-config", IF benv.probe.ok THEN "ok" ELSE "failed"))
         /\ IF r.ok
            THEN /\ include_dirs' = r.include_dirs
                 /\ lib_dirs' = r.lib_dirs
                 /\ bpc' = "compile_shim"
                 /\ UNCHANGED bresult
            ELSE /\ BuildAbort(r.err)
                 /\ UNCHANGED << include_dirs, lib_dirs >>
    /\ UNCHANGED benv
    /\ UNCHANGED demoVars

(***************************************************************************)
(* build.rs : vendored-build strategy (lines 53-146)                       *)
(***************************************************************************)
\* The check at the head of webrtc::build_if_necessary (lines 111-116).
\* main calls get_build_paths only (line 149): no step of a run applies it.
build_if_necessary_check(source_empty) ==
    IF source_empty THEN "EmptySourceTree" ELSE "ok"

\* meson has nothing to configure in an empty source directory.
MesonOutcomes == IF benv.source_empty THEN Outcomes \ {"ok"} ELSE Outcomes

\* main, line 149, vendored strategy; get_build_paths lines 62-70: the
\* abseil-cpp build directory is created and cmake builds abseil-cpp
\* (cmake::Config::build panics when cmake is missing or fails).
BundledAbseil ==
    /\ bpc = "get_build_paths" /\ benv.bundled
    /\ \E mkdir_ok \in BOOLEAN, o \in Outcomes :
         IF ~mkdir_ok
         THEN BuildAbort("IoError") /\ UNCHANGED invoked
         ELSE /\ invoked' = Append(invoked, Call("cmake", o))
              /\ IF o = "ok"
                 THEN bpc' = "meson" /\ UNCHANGED bresult
                 ELSE BuildAbort("CmakePanic")
    /\ UNCHANGED << benv, include_dirs, lib_dirs >>
    /\ UNCHANGED demoVars

\* A plausible slip: meson's exit status is not looked at.
BundledMeson_StatusIgnored ==
    /\ bpc = "meson"
    /\ \E mkdir_ok \in BOOLEAN, o \in MesonOutcomes :
         IF ~mkdir_ok
         THEN BuildAbort("IoError") /\ UNCHANGED invoked
         ELSE /\ invoked' = Append(invoked, Call("meson", o))
              /\ bpc' = "ninja" /\ UNCHANGED bresult
    /\ UNCHANGED << benv, include_dirs, lib_dirs >>
    /\ UNCHANGED demoVars

\* get_build_paths lines 72-87: the build directory is created and meson
\* configures a static build; a meson that cannot be started is an error, a
\* non-zero exit fails the assertion.
BundledMeson ==
    /\ bpc = "meson"
    /\ \E mkdir_ok \in BOOLEAN, o \in MesonOutcomes :
         IF ~mkdir_ok
         THEN BuildAbort("IoError") /\ UNCHANGED invoked
         ELSE /\ invoked' = Append(invoked, Call("meson", o))
              /\ IF o = "ok"
                 THEN bpc' = "ninja" /\ UNCHANGED bresult
                 ELSE BuildAbort(IF o = "missing" THEN "BuildToolMissing"
                                                  ELSE "BuildFailed")
    /\ UNCHANGED << benv, include_dirs, lib_dirs >>
    /\ UNCHANGED demoVars

\* get_build_paths lines 89-107: ninja installs into OUT_DIR; then the
\* include and library paths are returned.
BundledNinja ==
    /\ bpc = "ninja"
    /\ \E o \in Outcomes :
         /\ invoked' = Append(invoked, Call("ninja", o))
         /\ IF o = "ok"
            THEN /\ include_dirs' = << "out/include/webrtc-audio-processing-2",
                                       "out/include",
                                       "webrtc-audio-processing",
                                       "webrtc-audio-processing/webrtc" >>
                 /\ lib_dirs' = << "out/lib" >>
                 /\ bpc' = "compile_shim"
                 /\ UNCHANGED bresult
            ELSE /\ BuildAbort(IF o = "missing" THEN "BuildToolMissing"
                                                ELSE "BuildFailed")
                 /\ UNCHANGED << include_dirs, lib_dirs >>
    /\ UNCHANGED benv
    /\ UNCHANGED demoVars

(***************************************************************************)
(* build.rs : main after dependency resolution (lines 151-222)             *)
(***************************************************************************)
\* Lines 152-161: the shim is compiled with the include directories;
\* cc::Build::compile panics on failure.
CompileShim ==
    /\ bpc = "compile_shim"
    /\ \E o \in Outcomes :
         /\ invoked' = Append(invoked, Call("cc", o))
         /\ IF o = "ok"
            THEN bpc' = "bindgen" /\ UNCHANGED bresult
            ELSE BuildAbort("ShimCompilePanic")
    /\ UNCHANGED << benv, include_dirs, lib_dirs >>
    /\ UNCHANGED demoVars

\* Lines 164-222: the bindings are generated and written; failure panics.
GenerateBindings ==
    /\ bpc = "bindgen"
    /\ \E ok \in BOOLEAN :
         /\ invoked' = Append(invoked,
                              Call("bindgen", IF ok THEN "ok" ELSE "failed"))
         /\ IF ok
            THEN bpc' = "done" /\ bresult' = "ok"
            ELSE BuildAbort("BindgenPanic")
    /\ UNCHANGED << benv, include_dirs, lib_dirs >>
    /\ UNCHANGED demoVars

(***************************************************************************)
(* Specifications                                                          *)
(***************************************************************************)
\* The build script is not part of a run of the demo.
BuildIdle ==
    /\ benv = [ bundled |-> FALSE, include_var |-> None, lib_var |-> None,
                probe |-> [ok |-> FALSE, include_paths |-> << >>,
                           link_paths |-> << >>],
                source_empty |-> FALSE ]
    /\ bpc = "not_run"
    /\ invoked = << >>
    /\ include_dirs = << >>
    /\ lib_dirs = << >>
    /\ bresult = "running"

\* The demo is not part of a run of the build script.
DemoIdle ==
    /\ file = [exists |-> FALSE, readable |-> FALSE, content |-> EmptyContent]
    /\ mainpc = "not_run"
    /\ exitStatus = "none"
    /\ config = NoConfig
    /\ processor = NoProcessor
    /\ stream = "none"
    /\ processed = << >>
    /\ output_buffer = << >>
    /\ output_channels = 0
    /\ in_buffer = << >>
    /\ out_buffer = << >>
    /\ cbpc = 0
    /\ cblog = << >>
    /\ panicked = "no"
    /\ aborted = FALSE
    /\ running = TRUE
    /\ handlerInstalled = FALSE
    /\ pollsSinceStore = 0

Init == DemoInit /\ BuildIdle

Next ==
    \/ LoadConfig
    \/ CreateProcessor
    \/ PaSetup
    \/ AllocBuffers
    \/ OpenStream
    \/ StreamStart
    \/ SetHandler
    \/ PollRunning
    \/ InterruptHandler
    \/ MainReturn
    \/ CallbackEnter
    \/ CbCopyIn
    \/ CbCapture
    \/ CbFillOut
    \/ CbRender

\* A run of the demo (examples/config_karaoke.rs).
Spec == Init /\ [][Next]_vars

BuildSpecInit == BuildInit /\ DemoIdle

BuildNext ==
    \/ SystemGetBuildPaths
    \/ BundledAbseil
    \/ BundledMeson
    \/ BundledNinja
    \/ CompileShim
    \/ GenerateBindings

\* A run of the build script (webrtc-audio-processing-sys/build.rs).
BuildSpec == BuildSpecInit /\ [][BuildNext]_vars

(***************************************************************************)
(* Properties of the demo loop (specification Spec)                        *)
(***************************************************************************)
IsPrefix(s, t) ==
    /\ Len(s) <= Len(t)
    /\ \A i \in 1..Len(s) : s[i] = t[i]

Last(s) == s[Len(s)]

\* The callback is between its channel-adaptation step and render
\* processing.
AfterFillOut ==
    /\ cbpc # 0
    /\ panicked = "no"
    /\ cblog # << >>
    /\ Last(cblog) = "fill_out"

\* C1: in every callback the steps run in the order copy of the input frame
\* into the capture buffer, capture processing, filling of the output frame,
\* render processing; render processing never runs in a callback before that
\* callback's capture processing has returned successfully, and after the
\* copy the capture buffer holds the input frame.
C1_CaptureBeforeRender ==
    /\ IsPrefix(cblog, << "copy_in", "capture", "fill_out", "render" >>)
    /\ (cbpc # 0 /\ cblog = << "copy_in" >>) => processed = in_buffer

\* A callback has run all four steps and returned to the host.
C1_Witness ==
    /\ cbpc = 0
    /\ cblog = << "copy_in", "capture", "fill_out", "render" >>

\* C2: with one capture channel and two render channels, after the
\* channel-adaptation step the output frame has 2 x frames samples and the
\* two samples of pair i are both the processed mono sample i.
C2_MonoToStereo ==
    (/\ config.num_capture_channels = 1
     /\ config.num_render_channels = 2
     /\ AfterFillOut)
    => /\ Len(out_buffer) = 2 * FRAMES_PER_BUFFER
       /\ \A i \in 0..(FRAMES_PER_BUFFER - 1) :
            /\ out_buffer[2 * i + 1] = processed[i + 1]
            /\ out_buffer[2 * i + 2] = processed[i + 1]

\* A mono frame whose first two processed samples differ has been spread
\* over the stereo output frame.
C2_Witness ==
    /\ config.num_capture_channels = 1
    /\ config.num_render_channels = 2
    /\ AfterFillOut
    /\ processed[1] # processed[2]
    /\ processed # in_buffer

\* C3: once the interrupt handler has stored false, the flag stays false,
\* the control loop leaves at its next poll, and the program does not end
\* before the main thread has stopped the audio stream.
C3_ShutdownStopsStream ==
    ~running =>
        /\ pollsSinceStore <= 1
        /\ (mainpc = "done" \/ aborted) => stream = "stopped"

\* C4: a configuration path that does not exist gives the default
\* configuration and start-up goes on; a malformed file gives an error that
\* ends start-up with no Processor constructed and no stream opened.
C4_ConfigLoading ==
    /\ (~file.exists /\ mainpc # "load_config")
         => /\ config = AppConfig_default
            /\ mainpc = "create_processor" \/ processor.constructed
    /\ (file.exists /\ file.readable /\ ~file.content.wellformed)
         => /\ ~processor.constructed
            /\ stream = "none"
            /\ mainpc # "load_config" => exitStatus = "err"

\* The program has ended on a malformed configuration file.
C4_Witness ==
    /\ file.exists /\ file.readable /\ ~file.content.wellformed
    /\ mainpc = "done"
    /\ exitStatus = "err"

\* C9: for capture and render channel counts in {1,2} the pre-allocated
\* buffers keep the lengths frames x channels and no callback panics on a
\* length mismatch.
C9_NoLengthMismatch ==
    (/\ config.num_capture_channels \in {1, 2}
     /\ config.num_render_channels \in {1, 2})
    => /\ panicked # "length_mismatch"
       /\ processed # << >> =>
            /\ Len(processed)
                 = FRAMES_PER_BUFFER * config.num_capture_channels
            /\ Len(output_buffer)
                 = FRAMES_PER_BUFFER * config.num_render_channels

\* C10: with equal capture and render channel counts the output frame
\* before render processing equals the processed capture buffer.
C10_EqualChannelsPassThrough ==
    (/\ config.num_capture_channels = config.num_render_channels
     /\ AfterFillOut)
    => out_buffer = processed

(***************************************************************************)
(* Properties of the build script (specification BuildSpec)                *)
(***************************************************************************)
\* get_build_paths has returned Ok: main has gone on to the shim.
GetBuildPathsSucceeded ==
    \/ bpc \in {"compile_shim", "bindgen"}
    \/ bpc = "done" /\ bresult \in {"ok", "ShimCompilePanic", "BindgenPanic"}

GetBuildPathsFailed ==
    bpc = "done" /\ bresult \in {"ProbeError", "DependencyNotFound"}

\* The path is supplied by its override variable or by a successful probe.
IncludeSupplied ==
    IsSome(benv.include_var)
    \/ (benv.probe.ok /\ benv.probe.include_paths # << >>)

LibSupplied ==
    IsSome(benv.lib_var)
    \/ (benv.probe.ok /\ benv.probe.link_paths # << >>)

\* C5: in the system-probe strategy get_build_paths fails exactly when the
\* include path or the library path is supplied neither by its override
\* variable nor by a successful probe.
C5_FailsIffPathMissing ==
    (~benv.bundled /\ bpc # "get_build_paths")
    => /\ GetBuildPathsFailed <=> ~(IncludeSupplied /\ LibSupplied)
       /\ GetBuildPathsSucceeded <=> (IncludeSupplied /\ LibSupplied)

\* C6: in the system-probe strategy, when get_build_paths succeeds each
\* returned path is its override variable's value if that is set and the
\* probe's path otherwise, each resolved on its own.
C6_OverridePrecedence ==
    (~benv.bundled /\ GetBuildPathsSucceeded)
    => /\ IF IsSome(benv.include_var)
          THEN include_dirs = << Unwrap(benv.include_var) >>
          ELSE /\ benv.probe.include_paths # << >>
               /\ include_dirs = << Last(benv.probe.include_paths) >>
       /\ IF IsSome(benv.lib_var)
          THEN lib_dirs = << Unwrap(benv.lib_var) >>
          ELSE /\ benv.probe.link_paths # << >>
               /\ lib_dirs = << Last(benv.probe.link_paths) >>

\* The include path came from the override although the probe had one too,
\* and the library path came from the probe.
C6_Witness ==
    /\ ~benv.bundled
    /\ GetBuildPathsSucceeded
    /\ IsSome(benv.include_var)
    /\ benv.probe.include_paths # << >>
    /\ ~IsSome(benv.lib_var)

\* The build tools that were started, in order.
ToolsRun ==
    SelectSeq(invoked, LAMBDA c : c.tool \in {"cmake", "meson", "ninja"}
                                  /\ c.outcome # "missing")

\* C7: in the vendored strategy with an empty source checkout no build tool
\* is run and the build ends with EmptySourceTree (a failure of the file
\* system itself aside).
C7_EmptySourceChecked ==
    (benv.bundled /\ benv.source_empty)
    => /\ ToolsRun = << >>
       /\ (bpc = "done" /\ bresult # "IoError") => bresult = "EmptySourceTree"

Has(call) == \E i \in 1..Len(invoked) : invoked[i] = call

\* C8: in the vendored strategy the tools are called in the order cmake,
\* meson, ninja, shim compiler, binding generator; ninja only after meson was
\* found and exited with zero; paths are returned and the shim and the
\* bindings reached only after meson and ninja both were found and exited
\* with zero; a missing or failing tool ends the build in error.
C8_VendoredBuildOrder ==
    benv.bundled
    => /\ IsPrefix([i \in 1..Len(invoked) |-> invoked[i].tool],
                   << "cmake", "meson", "ninja", "cc", "bindgen" >>)
       /\ (\E o \in Outcomes : Has(Call("ninja", o)))
            => Has(Call("meson", "ok"))
       /\ (\/ include_dirs # << >>
           \/ lib_dirs # << >>
           \/ GetBuildPathsSucceeded
           \/ \E o \in Outcomes : Has(Call("cc", o)) \/ Has(Call("bindgen", o)))
            => Has(Call("meson", "ok")) /\ Has(Call("ninja", "ok"))
       /\ (\E t \in {"cmake", "meson", "ninja"}, o \in Outcomes \ {"ok"} :
              Has(Call(t, o)))
            => /\ bpc = "done"
               /\ bresult \in {"CmakePanic", "BuildToolMissing", "BuildFailed"}

\* A vendored build has run all its steps and written the bindings.
C8_Witness ==
    /\ benv.bundled
    /\ bpc = "done"
    /\ bresult = "ok"
    /\ Len(include_dirs) = 4

====
